---- MODULE Spec2Model ----
(***************************************************************************)
(* Model of go.go (fumin/chamgo): the latest record under                  *)
(* Container/Documents/game/ is patched in place and substituted for the   *)
(* latest entry under Container/Documents/game-online/ while the archive   *)
(* is re-emitted entry by entry on standard output.                        *)
(*                                                                         *)
(* A byte buffer is a sequence of 0..255; Go offset k is element k+1.      *)
(* A name is a sequence of one-character strings.                          *)
(***************************************************************************)
EXTENDS Integers, Sequences, FiniteSets, TLC

VARIABLES archive, player, now, pc, err, latestBody, firstOnline, wi, out,
          flushed, closed, fbuf, forig, fcount, fpanic

vars == <<archive, player, now, pc, err, latestBody, firstOnline, wi, out,
          flushed, closed, fbuf, forig, fcount, fpanic>>

mainVars == <<archive, player, now, pc, err, latestBody, firstOnline, wi, out,
              flushed, closed>>

flipVars == <<fbuf, forig, fcount, fpanic>>

(***************************************************************************)
(* Bounds                                                                  *)
(***************************************************************************)
MaxEntries == 3

MaxFlips == 2

(***************************************************************************)
(* Byte and slice helpers                                                  *)
(***************************************************************************)
Byte == 0..255

\* body[off] for an offset inside the slice
Get(body, off) == body[off + 1]

\* body[off] = v
Set(body, off, v) == [body EXCEPT ![off + 1] = v]

\* The byte at offset off of the array backing a slice returned by
\* ioutil.ReadAll: the slice's own byte inside its length, and the zero
\* byte of the freshly made, at least 512 byte, backing array beyond it.
BackingByte(body, off) == IF off < Len(body) THEN body[off + 1] ELSE 0

\* binary.Write(buf, binary.LittleEndian, int32)
PutInt32LE(t) ==
    << t % 256, (t \div 256) % 256, (t \div 65536) % 256, (t \div 16777216) % 256 >>

\* binary.Read(buf, binary.LittleEndian, &int32)
ReadInt32LE(b) ==
    b[1] + b[2] * 256 + b[3] * 65536
      + (IF b[4] >= 128 THEN b[4] - 256 ELSE b[4]) * 16777216

\* body[60:64] decoded; slicing is bounded by the capacity, never the length
getSavedDate(body) ==
    ReadInt32LE(<< BackingByte(body, 60), BackingByte(body, 61),
                   BackingByte(body, 62), BackingByte(body, 63) >>)

\* filepath.HasPrefix(s, p)
HasPrefix(s, p) == Len(s) >= Len(p) /\ SubSeq(s, 1, Len(p)) = p

GamePrefix ==
    << "C","o","n","t","a","i","n","e","r","/",
       "D","o","c","u","m","e","n","t","s","/","g","a","m","e","/" >>

OnlinePrefix ==
    << "C","o","n","t","a","i","n","e","r","/",
       "D","o","c","u","m","e","n","t","s","/",
       "g","a","m","e","-","o","n","l","i","n","e","/" >>

Prefix(online) == IF online THEN OnlinePrefix ELSE GamePrefix

(***************************************************************************)
(* readAvx                                                                 *)
(***************************************************************************)
\* one iteration of the loop over r.File, acc = [latest, latestBody, latestDate]
ScanEntry(acc, f, prefix) ==
    IF ~HasPrefix(f.name, prefix) THEN acc
    ELSE IF f.isDir THEN acc
    ELSE IF getSavedDate(f.body) > acc.latestDate
         THEN [latest |-> f.name, latestBody |-> f.body,
               latestDate |-> getSavedDate(f.body)]
         ELSE acc

RECURSIVE ScanFrom(_, _, _, _)
ScanFrom(files, i, acc, prefix) ==
    IF i > Len(files) THEN acc
    ELSE ScanFrom(files, i + 1, ScanEntry(acc, files[i], prefix), prefix)

\* readAvx(f, online) when no open or read fails: (latest, latestBody, nil)
readAvx(files, online) ==
    ScanFrom(files, 1,
             [latest |-> << >>, latestBody |-> << >>, latestDate |-> -1],
             Prefix(online))

(***************************************************************************)
(* flipBoard180 and flipToComputer                                         *)
(***************************************************************************)
\* FlipLoop with the reflection taken as bs - c
RECURSIVE FlipLoopNoPlusOne(_, _, _)
FlipLoopNoPlusOne(body, bs, i) ==
    IF i >= Len(body) THEN [panic |-> FALSE, body |-> body]
    ELSE IF i + 4 >= Len(body) THEN [panic |-> TRUE, body |-> body]
    ELSE LET b1 == Set(body, i + 4, (bs - Get(body, i + 4)) % 256)
         IN  IF i + 8 >= Len(body) THEN [panic |-> TRUE, body |-> b1]
             ELSE FlipLoopNoPlusOne(Set(b1, i + 8, (bs - Get(b1, i + 8)) % 256),
                                    bs, i + 20)

\* for i := 76; i < len(body); i += 20 { body[i+4] = ...; body[i+8] = ... }
\* An index at or beyond len(body) is a run-time panic; the writes made
\* before it stay in the buffer.
RECURSIVE FlipLoop(_, _, _)
FlipLoop(body, bs, i) ==
    IF i >= Len(body) THEN [panic |-> FALSE, body |-> body]
    ELSE IF i + 4 >= Len(body) THEN [panic |-> TRUE, body |-> body]
    ELSE LET b1 == Set(body, i + 4, (bs - Get(body, i + 4) + 1) % 256)
         IN  IF i + 8 >= Len(body) THEN [panic |-> TRUE, body |-> b1]
             ELSE FlipLoop(Set(b1, i + 8, (bs - Get(b1, i + 8) + 1) % 256),
                           bs, i + 20)

flipBoard180(body) ==
    IF Len(body) <= 8 THEN [panic |-> TRUE, body |-> body]
    ELSE FlipLoop(body, Get(body, 8), 76)

\* the two binary.Write calls on bytes.NewBuffer(body[56:56]): eight bytes
\* land in the backing array at offsets 56..63; those inside len(body) are
\* part of the slice
WriteDates(body, t) ==
    [k \in 1..Len(body) |->
        IF k - 1 >= 56 /\ k - 1 < 60 THEN PutInt32LE(t)[k - 56]
        ELSE IF k - 1 >= 60 /\ k - 1 < 64 THEN PutInt32LE(t)[k - 60]
        ELSE body[k]]

\* flipToComputer with the board flipped for either colour
flipToComputerAlwaysFlip(body, p, t) ==
    IF Len(body) <= 4 THEN [panic |-> TRUE, body |-> body]
    ELSE LET b4 == Set(body, 4, 1)
         IN  IF Len(body) <= 12 THEN [panic |-> TRUE, body |-> b4]
             ELSE LET colored == flipBoard180(Set(b4, 12, IF p = "w" THEN 1 ELSE 0))
                  IN  IF colored.panic THEN colored
                      ELSE IF Len(body) <= 16
                           THEN [panic |-> TRUE, body |-> colored.body]
                           ELSE [panic |-> FALSE,
                                 body |-> WriteDates(Set(colored.body, 16, 10), t)]

flipToComputer(body, p, t) ==
    IF Len(body) <= 4 THEN [panic |-> TRUE, body |-> body]
    ELSE LET b4 == Set(body, 4, 1)
         IN  IF Len(body) <= 12 THEN [panic |-> TRUE, body |-> b4]
             ELSE LET colored == IF p = "w"
                                 THEN flipBoard180(Set(b4, 12, 1))
                                 ELSE [panic |-> FALSE, body |-> Set(b4, 12, 0)]
                  IN  IF colored.panic THEN colored
                      ELSE IF Len(body) <= 16
                           THEN [panic |-> TRUE, body |-> colored.body]
                           ELSE [panic |-> FALSE,
                                 body |-> WriteDates(Set(colored.body, 16, 10), t)]

(***************************************************************************)
(* Input archives                                                          *)
(***************************************************************************)
\* A saved game of n bytes: board size at 8, saved date at 60..63, the two
\* coordinates of stride k at 76+20k+4 and 76+20k+8.
Record(n, date, bs, c1, c2) ==
    [k \in 1..n |->
        LET off == k - 1
        IN  IF off = 8 THEN bs
            ELSE IF off = 12 THEN 1
            ELSE IF off = 16 THEN 3
            ELSE IF off >= 60 /\ off < 64 THEN PutInt32LE(date)[off - 59]
            ELSE IF off >= 76 /\ (off - 76) % 20 = 4 THEN c1
            ELSE IF off >= 76 /\ (off - 76) % 20 = 8 THEN c2
            ELSE 0]

GameBodies ==
    { Record(96, 100, 19, 3, 16),
      Record(116, 200, 9, 200, 4),
      Record(96, -5, 19, 3, 16),
      Record(40, 0, 19, 0, 0),
      Record(102, 100, 19, 3, 16) }

OnlineBodies ==
    { Record(96, 100, 19, 3, 16),
      Record(96, 200, 19, 3, 16),
      Record(96, -5, 19, 3, 16) }

\* the bodies of a second entry under each prefix: an equal and a later date
SecondGameBodies ==
    { Record(96, 100, 19, 3, 16),
      Record(116, 200, 9, 200, 4) }

SecondOnlineBodies ==
    { Record(96, 100, 19, 3, 16),
      Record(96, 200, 19, 3, 16) }

BigBody == [k \in 1..5000 |-> 0]

EntryPool ==
    { [name |-> GamePrefix \o <<"a">>, isDir |-> FALSE, body |-> b] : b \in GameBodies }
    \cup
    { [name |-> GamePrefix \o <<"b">>, isDir |-> FALSE, body |-> b] : b \in SecondGameBodies }
    \cup
    { [name |-> OnlinePrefix \o <<"x">>, isDir |-> FALSE, body |-> b] : b \in OnlineBodies }
    \cup
    { [name |-> OnlinePrefix \o <<"y">>, isDir |-> FALSE, body |-> b] : b \in SecondOnlineBodies }
    \cup
    { [name |-> GamePrefix, isDir |-> TRUE, body |-> << >>],
      [name |-> <<"I","n","f","o">>, isDir |-> FALSE, body |-> BigBody] }

\* entry names are unique within an archive
UniqueNames(files) ==
    \A i, j \in 1..Len(files) : files[i].name = files[j].name => i = j

Archives ==
    { a \in UNION { [1..n -> EntryPool] : n \in 0..MaxEntries } : UniqueNames(a) }

Players == {"b", "w", "x"}

\* int32(time.Now().Unix())
Nows == {1790000000}

(***************************************************************************)
(* main                                                                    *)
(***************************************************************************)
\* bufio.Writer inside zip.Writer
BufSize == 4096

RECURSIVE PayloadBytes(_)
PayloadBytes(entries) ==
    IF entries = << >> THEN 0
    ELSE Len(Head(entries).body) + PayloadBytes(Tail(entries))

\* The entry writer made by zw.Create compresses with flate.NoCompression,
\* which keeps a payload in its store window (65535 bytes, more than any
\* payload here) until the entry is closed; zip.Writer closes an entry in
\* the zw.Create of the next one and in zw.Close.  flushed is the number of
\* entries of out closed so far: their payloads have gone on to the zip
\* writer's buffer.
\*
\* The payloads closed by the next zw.Create do not fit the zip writer's
\* buffer, so that Create writes to os.Stdout.  (The headers and payloads of
\* the other entries here stay far below BufSize together.)
CreateWritesStdout == PayloadBytes(SubSeq(out, flushed + 1, Len(out))) > BufSize

\* bytes have been handed to os.Stdout: the payloads of the closed entries
\* alone exceed the zip writer's buffer, or zw.Close, which ends by flushing
\* the buffer, has run (it can fail only in a write to os.Stdout)
StdoutWritten == PayloadBytes(SubSeq(out, 1, flushed)) > BufSize \/ closed > 0

\* the iteration for reference entry f can end with outcome r: f.Open reads
\* the archive and can always fail; zw.Create fails only when a write to
\* os.Stdout does; of.Write(latestBody) only fills the store window, while
\* io.Copy also reads the reference entry, which can fail
CanEndWith(r, f) ==
    /\ r = "create" => CreateWritesStdout
    /\ r = "write" => f.name # firstOnline

Init ==
    /\ archive \in Archives
    /\ player \in Players
    /\ now \in Nows
    /\ pc = "scanGame"
    /\ err = "none"
    /\ latestBody = << >>
    /\ firstOnline = << >>
    /\ wi = 0
    /\ out = << >>
    /\ flushed = 0
    /\ closed = 0
    /\ fbuf = << >> /\ forig = << >> /\ fcount = 0 /\ fpanic = FALSE

\* log.Fatal(err)
Fatal(e) == pc' = "fatal" /\ err' = e

\* _, latestBody, err := readAvx(*inAvx, false)
ScanGame ==
    /\ pc = "scanGame"
    /\ \E ok \in BOOLEAN :
         IF ok
         THEN /\ latestBody' = readAvx(archive, FALSE).latestBody
              /\ pc' = "scanOnline"
              /\ err' = err
         ELSE Fatal("io") /\ latestBody' = latestBody
    /\ UNCHANGED <<archive, player, now, firstOnline, wi, out, flushed, closed>>
    /\ UNCHANGED flipVars

\* firstOnline, _, err := readAvx(*inAvx, true)
ScanOnline ==
    /\ pc = "scanOnline"
    /\ \E ok \in BOOLEAN :
         IF ok
         THEN /\ firstOnline' = readAvx(archive, TRUE).latest
              /\ pc' = "mutate"
              /\ err' = err
         ELSE Fatal("io") /\ firstOnline' = firstOnline
    /\ UNCHANGED <<archive, player, now, latestBody, wi, out, flushed, closed>>
    /\ UNCHANGED flipVars

\* flipToComputer(latestBody)
Mutate ==
    /\ pc = "mutate"
    /\ LET r == flipToComputer(latestBody, player, now)
       IN  /\ latestBody' = r.body
           /\ pc' = IF r.panic THEN "panic" ELSE "open"
    /\ UNCHANGED <<archive, player, now, err, firstOnline, wi, out, flushed, closed>>
    /\ UNCHANGED flipVars

\* writeAvx: zip.NewWriter(w), zip.OpenReader(avxName)
RewriteOpen ==
    /\ pc = "open"
    /\ \E ok \in BOOLEAN :
         IF ok
         THEN pc' = "rewrite" /\ wi' = 1 /\ err' = err
         ELSE Fatal("io") /\ wi' = wi
    /\ UNCHANGED <<archive, player, now, latestBody, firstOnline, out, flushed, closed>>
    /\ UNCHANGED flipVars

\* Payload with the substitution made for every entry under the online prefix
PayloadAnyOnline(f, substituteName, substituteBytes) ==
    IF HasPrefix(f.name, OnlinePrefix) THEN substituteBytes ELSE f.body

\* the payload written for reference entry f
Payload(f, substituteName, substituteBytes) ==
    IF f.name = substituteName THEN substituteBytes ELSE f.body

\* RewriteEntry with a failed entry skipped and the loop carried on
RewriteEntrySkipFailed ==
    /\ pc = "rewrite"
    /\ wi <= Len(archive)
    /\ \E r \in {"ok", "open", "create", "write"} :
         /\ CanEndWith(r, archive[wi])
         /\ flushed' = IF r = "open" THEN flushed ELSE Len(out)
         /\ IF r = "ok"
            THEN /\ out' = Append(out, [name |-> archive[wi].name,
                                        body |-> IF archive[wi].name = firstOnline
                                                 THEN latestBody ELSE archive[wi].body])
                 /\ err' = err
            ELSE out' = out /\ err' = "io"
    /\ wi' = wi + 1
    /\ pc' = pc
    /\ UNCHANGED <<archive, player, now, latestBody, firstOnline, closed>>
    /\ UNCHANGED <<fbuf, forig, fcount, fpanic>>

\* writeAvx: one iteration of the loop over r.File.  r is how far the
\* iteration gets: f.Open fails ("open"), zw.Create fails ("create"),
\* of.Write or io.Copy fails ("write"), or the payload is written ("ok").
\* zw.Create first closes the entry written by the previous iteration.
RewriteEntry ==
    /\ pc = "rewrite"
    /\ wi <= Len(archive)
    /\ \E r \in {"ok", "open", "create", "write"} :
         /\ CanEndWith(r, archive[wi])
         /\ flushed' = IF r = "open" THEN flushed ELSE Len(out)
         /\ IF r = "ok"
            THEN /\ out' = Append(out, [name |-> archive[wi].name,
                                        body |-> Payload(archive[wi], firstOnline, latestBody)])
                 /\ wi' = wi + 1
                 /\ pc' = pc
                 /\ err' = err
            ELSE Fatal("io") /\ out' = out /\ wi' = wi
    /\ UNCHANGED <<archive, player, now, latestBody, firstOnline, closed>>
    /\ UNCHANGED flipVars

\* writeAvx: zw.Close(), which closes the last entry, writes the central
\* directory and flushes the buffer
RewriteClose ==
    /\ pc = "rewrite"
    /\ wi > Len(archive)
    /\ closed' = closed + 1
    /\ flushed' = Len(out)
    /\ \E ok \in BOOLEAN :
         IF ok THEN pc' = "done" /\ err' = err ELSE Fatal("io")
    /\ UNCHANGED <<archive, player, now, latestBody, firstOnline, wi, out>>
    /\ UNCHANGED flipVars

Next ==
    \/ ScanGame
    \/ ScanOnline
    \/ Mutate
    \/ RewriteOpen
    \/ RewriteEntry
    \/ RewriteClose

Spec == Init /\ [][Next]_vars

TypeOK ==
    /\ pc \in {"scanGame", "scanOnline", "mutate", "open", "rewrite", "done", "fatal", "panic"}
    /\ closed \in 0..1
    /\ flushed \in 0..Len(out)
    /\ \A k \in 1..Len(latestBody) : latestBody[k] \in Byte

(***************************************************************************)
(* flipBoard180 applied repeatedly to one buffer                           *)
(***************************************************************************)
FlipInputs ==
    { Record(n, 0, bs, c1, c2) :
        n \in {76, 77, 81, 85, 86, 96, 102, 115, 116},
        bs \in {0, 9, 19, 255},
        c1 \in {0, 3, 200},
        c2 \in {10, 255} }

InitFlip ==
    /\ archive = << >>
    /\ player = "w"
    /\ now = 0
    /\ pc = "flip"
    /\ err = "none"
    /\ latestBody = << >>
    /\ firstOnline = << >>
    /\ wi = 0
    /\ out = << >>
    /\ flushed = 0
    /\ closed = 0
    /\ fbuf \in FlipInputs
    /\ forig = fbuf
    /\ fcount = 0
    /\ fpanic = FALSE

\* flipBoard180(body)
FlipStep ==
    /\ pc = "flip"
    /\ ~fpanic
    /\ fcount < MaxFlips
    /\ LET r == flipBoard180(fbuf)
       IN  fbuf' = r.body /\ fpanic' = r.panic
    /\ fcount' = fcount + 1
    /\ forig' = forig
    /\ UNCHANGED mainVars

NextFlip == FlipStep

SpecFlip == InitFlip /\ [][NextFlip]_vars

(***************************************************************************)
(* Properties                                                              *)
(***************************************************************************)
\* positions of the non-directory entries whose name starts with prefix
Matching(files, prefix) ==
    { i \in 1..Len(files) : HasPrefix(files[i].name, prefix) /\ ~files[i].isDir }

\* the first position, among the matching ones, of the greatest saved date
IsLatest(files, prefix, i) ==
    /\ i \in Matching(files, prefix)
    /\ \A j \in Matching(files, prefix) :
         /\ getSavedDate(files[j].body) <= getSavedDate(files[i].body)
         /\ getSavedDate(files[j].body) = getSavedDate(files[i].body) => i <= j

\* the first scan has returned without error
GameScanned == pc \in {"scanOnline", "mutate", "open", "rewrite", "done", "panic"}

\* the second scan has returned without error
OnlineScanned == pc \in {"mutate", "open", "rewrite", "done", "panic"}

\* C1: whenever a prefix has a matching entry, the scan returns the first
\* matching entry of greatest saved date, whatever the sign of the dates.
C1_ScanReturnsMaximum ==
    /\ (pc = "scanOnline" /\ Matching(archive, GamePrefix) # {})
          => \E i \in 1..Len(archive) :
                IsLatest(archive, GamePrefix, i) /\ latestBody = archive[i].body
    /\ (pc = "mutate" /\ Matching(archive, OnlinePrefix) # {})
          => \E i \in 1..Len(archive) :
                IsLatest(archive, OnlinePrefix, i) /\ firstOnline = archive[i].name

\* C2: with no matching entry under a prefix the scan of that prefix fails,
\* so the run goes no further than that scan.
C2_NoMatchIsAnError ==
    /\ Matching(archive, GamePrefix) = {} => ~GameScanned
    /\ Matching(archive, OnlinePrefix) = {} => ~OnlineScanned

\* a matching entry under prefix has fewer than 64 bytes
HasShortRecord(files, prefix) ==
    \E i \in Matching(files, prefix) : Len(files[i].body) < 64

\* C3: a matching entry shorter than 64 bytes makes the scan return an
\* error, so the run goes no further than that scan and writes nothing.
C3_ShortRecordIsAnError ==
    /\ HasShortRecord(archive, GamePrefix) => ~GameScanned
    /\ HasShortRecord(archive, OnlinePrefix) => ~OnlineScanned
    /\ (HasShortRecord(archive, GamePrefix) \/ HasShortRecord(archive, OnlinePrefix))
          => out = << >>

\* C4: a run that has failed has handed no byte to standard output.
C4_NoOutputOnFailure ==
    pc \in {"fatal", "panic"} => ~StdoutWritten

\* the record mutate is specified to produce from orig
PatchedByte(orig, off, p, t) ==
    IF off = 4 THEN 1
    ELSE IF off = 12 THEN (IF p = "w" THEN 1 ELSE 0)
    ELSE IF off = 16 THEN 10
    ELSE IF off >= 56 /\ off < 60 THEN PutInt32LE(t)[off - 55]
    ELSE IF off >= 60 /\ off < 64 THEN PutInt32LE(t)[off - 59]
    ELSE IF p = "w" /\ off >= 76 /\ (off - 76) % 20 \in {4, 8}
         THEN (orig[9] - orig[off + 1] + 1) % 256
    ELSE orig[off + 1]

Patched(orig, p, t) == [k \in 1..Len(orig) |-> PatchedByte(orig, k - 1, p, t)]

\* the positions of the output whose payload differs from the reference
Substituted == { i \in 1..Len(out) : out[i].body # archive[i].body }

\* C5: a successful run substitutes exactly one payload, that of the latest
\* online entry, by the patched latest in-progress record.
C5_ExactlyOneSubstitution ==
    pc = "done" =>
        \E i \in 1..Len(archive), g \in 1..Len(archive) :
            /\ Len(out) = Len(archive)
            /\ IsLatest(archive, OnlinePrefix, i)
            /\ IsLatest(archive, GamePrefix, g)
            /\ Len(archive[g].body) >= 64
            /\ Substituted = {i}
            /\ out[i].body = Patched(archive[g].body, player, now)

\* C6: after a successful rewrite the output has the reference names in the
\* reference order, and every entry not named substituteName has the
\* reference payload.
C6_RewritePreservesOthers ==
    pc = "done" =>
        /\ Len(out) = Len(archive)
        /\ \A i \in 1..Len(archive) :
              /\ out[i].name = archive[i].name
              /\ archive[i].name # firstOnline => out[i].body = archive[i].body

C6_Witness ==
    /\ pc = "done"
    /\ \E i, j \in 1..Len(out) :
          /\ out[i].name = firstOnline
          /\ out[i].body # archive[i].body
          /\ i < j
          /\ out[j].name # firstOnline
          /\ Len(out[j].body) > 0

\* the coordinate offsets of a buffer of n bytes
CoordOffsets(n) == { off \in 76..(n - 1) : (off - 76) % 20 \in {4, 8} }

\* C7: a completed flip replaces every coordinate byte c by (n - c + 1) mod
\* 256, n being the byte at offset 8, and a second flip with the same n
\* restores it.
C7_FlipIsInvolution ==
    (pc = "flip" /\ ~fpanic) =>
        \A off \in CoordOffsets(Len(forig)) :
            /\ fcount % 2 = 1 => fbuf[off + 1] = (forig[9] - forig[off + 1] + 1) % 256
            /\ fcount % 2 = 0 => fbuf[off + 1] = forig[off + 1]

C7_Witness ==
    /\ pc = "flip"
    /\ fcount = 2
    /\ ~fpanic
    /\ Len(forig) = 116
    /\ forig[9] - forig[81] + 1 < 0
    /\ fbuf = forig

\* C8: mutate for any colour other than "w" sets offset 12 to 0 and leaves
\* every byte from offset 76 on as it was.
C8_BlackKeepsMoves ==
    [][(pc = "mutate" /\ pc' = "open" /\ player # "w") =>
          /\ latestBody'[13] = 0
          /\ Len(latestBody') = Len(latestBody)
          /\ \A k \in 77..Len(latestBody) : latestBody'[k] = latestBody[k]]_vars

C8_Witness ==
    /\ pc = "open"
    /\ player = "x"
    /\ Len(latestBody) = 116
    /\ latestBody[13] = 0
    /\ latestBody[81] = 200

\* the first offset of the trailing partial stride of a buffer of n bytes
PartialStart(n) == 76 + 20 * ((n - 76) \div 20)

\* C9: on a buffer of at least 76 bytes the flip completes and leaves the
\* trailing partial stride untouched.
C9_PartialStrideUntouched ==
    (pc = "flip" /\ fcount >= 1 /\ Len(forig) >= 76) =>
        /\ ~fpanic
        /\ \A off \in PartialStart(Len(forig))..(Len(forig) - 1) :
              fbuf[off + 1] = forig[off + 1]

\* C10: a failed entry ends the rewrite: nothing is written or closed after
\* an error; Close runs at most once, and only after every entry is written.
C10_StopAtFirstFailure ==
    /\ [](closed <= 1)
    /\ [](closed = 1 => Len(out) = Len(archive))
    /\ [](pc = "done" => closed = 1)
    /\ [][err # "none" => (out' = out /\ flushed' = flushed /\ closed' = closed /\ wi' = wi)]_vars
    /\ [][(pc = "rewrite" /\ err' # "none" /\ wi <= Len(archive)) => closed' = 0]_vars

C10_Witness ==
    /\ pc = "fatal"
    /\ Len(out) > 0
    /\ Len(out) < Len(archive)
    /\ closed = 0
====
